---- MODULE Spec2Model ----
(***************************************************************************)
(* Model of the appm template declarations (src/appm/model.py) and of the  *)
(* prototype file-name parser (src/src/file.py).                           *)
(*                                                                         *)
(* A Python str that is matched or composed is a sequence of one-character *)
(* strings; a regular expression is a sequence of tokens ("^", "(", ")",   *)
(* "$", a quantified character class, or a literal character), so that the *)
(* string concatenations of the code are sequence concatenations here and  *)
(* the capture groups of a composed pattern are counted on the pattern     *)
(* itself.  A falsy Python value (None, "", []) is the empty sequence.     *)
(***************************************************************************)
EXTENDS Integers, Sequences, FiniteSets, TLC

(***************************************************************************)
(* Bounds of the explored inputs.                                          *)
(***************************************************************************)
MaxNameLen == 3
MaxFormat == 2
MaxTemplateFormat == 1
MaxLayout == 2
MaxStructure == 3
MaxSubfields == 2

Alphabet == {"1", "b", "-", "_", "."}
Digits == {"1"}
NotSepDot == Alphabet \ {"_", "."}

\* what re reports for a group that took no part in the match
NoGroup == <<"None">>

Min(a, b) == IF a <= b THEN a ELSE b

SeqsUpTo(S, n) == UNION {[1..k -> S] : k \in 0..n}

Names == SeqsUpTo(Alphabet, MaxNameLen)

(***************************************************************************)
(* The regular-expression engine (Python's re.match): backtracking, greedy *)
(* quantifiers, the first successful path wins.                            *)
(***************************************************************************)
RECURSIVE Run(_, _, _)
Run(cls, s, i) ==
    IF i <= Len(s) /\ s[i] \in cls THEN 1 + Run(cls, s, i + 1) ELSE 0

\* the positions a token can end at when it starts at i, in the order the
\* engine tries them
Ends(tok, s, i) ==
    CASE tok = "^" -> IF i = 1 THEN <<i>> ELSE <<>>
      [] tok = "$" -> IF i = Len(s) + 1 THEN <<i>> ELSE <<>>
      [] tok = ".*" -> [k \in 1..(Len(s) + 2 - i) |-> Len(s) + 2 - k]
      [] tok = "\\d+" -> [k \in 1..Run(Digits, s, i) |-> i + Run(Digits, s, i) + 1 - k]
      [] tok = "[^_.]+" -> [k \in 1..Run(NotSepDot, s, i) |-> i + Run(NotSepDot, s, i) + 1 - k]
      [] OTHER -> IF i <= Len(s) /\ s[i] = tok THEN <<i + 1>> ELSE <<>>

GroupNo(p, ti) == Cardinality({j \in 1..ti : p[j] = "("})

NumGroups(p) == GroupNo(p, Len(p))

RECURSIVE MatchFrom(_, _, _, _, _, _)
RECURSIVE TryEnds(_, _, _, _, _, _, _)
MatchFrom(p, ti, s, si, open, caps) ==
    IF ti > Len(p) THEN [ok |-> TRUE, groups |-> caps]
    ELSE IF p[ti] = "("
    THEN MatchFrom(p, ti + 1, s, si, <<[g |-> GroupNo(p, ti), at |-> si]>> \o open, caps)
    ELSE IF p[ti] = ")"
    THEN MatchFrom(p, ti + 1, s, si, Tail(open),
                   [caps EXCEPT ![open[1].g] = SubSeq(s, open[1].at, si - 1)])
    ELSE TryEnds(p, ti, s, Ends(p[ti], s, si), 1, open, caps)

TryEnds(p, ti, s, ends, k, open, caps) ==
    IF k > Len(ends) THEN [ok |-> FALSE, groups |-> caps]
    ELSE LET r == MatchFrom(p, ti + 1, s, ends[k], open, caps)
         IN IF r.ok THEN r ELSE TryEnds(p, ti, s, ends, k + 1, open, caps)

re_match(p, s) == MatchFrom(p, 1, s, 1, <<>>, [g \in 1..NumGroups(p) |-> NoGroup])

(***************************************************************************)
(* Python helpers.                                                         *)
(***************************************************************************)
RECURSIVE join(_, _)
join(sep, parts) ==
    IF parts = <<>> THEN <<>>
    ELSE IF Len(parts) = 1 THEN parts[1]
    ELSE parts[1] \o sep \o join(sep, Tail(parts))

RECURSIVE extend(_)
\* the concatenation of a list of lists (list.extend in a loop)
extend(ls) == IF ls = <<>> THEN <<>> ELSE ls[1] \o extend(Tail(ls))

\* dict(zip(keys, vals)): a later pair replaces an earlier one with its key
dict_zip(keys, vals) ==
    LET n == Min(Len(keys), Len(vals))
        last(k) == CHOOSE i \in 1..n : keys[i] = k /\ \A j \in (i + 1)..n : keys[j] # k
    IN [k \in {keys[i] : i \in 1..n} |-> vals[last(k)]]

Paren(p) == <<"(">> \o p \o <<")">>

(***************************************************************************)
(* FieldDecl (src/appm/model.py).  A field is the record                   *)
(* [name, sep, pattern, subfields, required]; a (name, pattern) pair of a  *)
(* declaration is the field from_tuple makes of it.                        *)
(***************************************************************************)
from_tuple(name, pattern) ==
    [name |-> name, sep |-> <<>>, pattern |-> pattern, subfields |-> <<>>,
     required |-> TRUE]

\* the validator without its last test
validate_pattern_subfields_NoSepTest(f) ==
    IF f.pattern = <<>> /\ f.subfields = <<>>
    THEN "Either one of pattern or subfield must be provided"
    ELSE IF f.pattern # <<>> /\ f.subfields # <<>>
    THEN "pattern and subfields must not be provided at the same time"
    ELSE "ok"

validate_pattern_subfields(f) ==
    IF f.pattern = <<>> /\ f.subfields = <<>>
    THEN "Either one of pattern or subfield must be provided"
    ELSE IF f.pattern # <<>> /\ f.subfields # <<>>
    THEN "pattern and subfields must not be provided at the same time"
    ELSE IF f.subfields # <<>> /\ f.sep = <<>>
    THEN "If subfields is provided, sep must also be provided"
    ELSE "ok"

RECURSIVE extract_field_decl(_)
\* the first error the construction of the fields of a list raises, "ok" if
\* every field of the list (and every field below it) is constructed
extract_field_decl(fields) ==
    IF fields = <<>> THEN "ok"
    ELSE LET own == validate_pattern_subfields(fields[1])
             below == IF own = "ok" THEN extract_field_decl(fields[1].subfields) ELSE own
         IN IF below = "ok" THEN extract_field_decl(Tail(fields)) ELSE below

RECURSIVE FieldDecl_matched_fields(_)
FieldDecl_matched_fields(f) ==
    <<f.name>> \o
    extend([i \in 1..Len(f.subfields) |->
              LET sub == FieldDecl_matched_fields(f.subfields[i])
              IN [j \in 1..Len(sub) |-> f.name \o "__" \o sub[j]]])

RECURSIVE FieldDecl_processed_pattern(_)
FieldDecl_processed_pattern(f) ==
    IF f.pattern # <<>> THEN f.pattern
    ELSE join(f.sep, [i \in 1..Len(f.subfields) |->
                        Paren(FieldDecl_processed_pattern(f.subfields[i]))])

(***************************************************************************)
(* ExtDecl (src/appm/model.py).  The declaration data is                   *)
(* [sep, format, default]; ExtDecl declares sep and format only, so the    *)
(* default key of the data (src/appm/default.py) is dropped.               *)
(***************************************************************************)
NoExt == [kind |-> "none", msg |-> "", field |-> "", sep |-> <<>>, format |-> <<>>,
          pattern |-> <<>>]

\* the indices of the fields whose name an earlier field of the list has
Repeated(format) ==
    {i \in 1..Len(format) : \E j \in 1..(i - 1) : format[j].name = format[i].name}

transform_format(data) ==
    LET fields == extract_field_decl(data.format)
        dup == Repeated(data.format)
        first == CHOOSE i \in dup : \A j \in dup : i <= j
    IN IF fields # "ok"
       THEN [NoExt EXCEPT !.kind = "ValidationError", !.msg = fields]
       ELSE IF dup # {}
       THEN [NoExt EXCEPT !.kind = "ValidationError", !.msg = "Field name must be unique",
                          !.field = data.format[first].name]
       ELSE [kind |-> "ok", msg |-> "", field |-> "", sep |-> data.sep,
             format |-> data.format,
             pattern |-> <<"^">>
                         \o join(data.sep, [i \in 1..Len(data.format) |->
                                  Paren(FieldDecl_processed_pattern(data.format[i]))])
                         \o <<"(", ".*", ")", "$">>]

ExtDecl_matched_fields(e) ==
    extend([i \in 1..Len(e.format) |-> FieldDecl_matched_fields(e.format[i])]) \o <<"*">>

ExtDecl_fields(e) ==
    {ExtDecl_matched_fields(e)[i] : i \in 1..Len(ExtDecl_matched_fields(e))}

EmptyDict == [k \in {} |-> <<>>]

NoMatch == [kind |-> "none", name |-> <<>>, pattern |-> <<>>, value |-> EmptyDict]

\* match with a mismatch message that leaves the pattern out
ExtDecl_match_NameOnly(e, name) ==
    LET m == re_match(e.pattern, name)
    IN IF ~m.ok
       THEN [NoMatch EXCEPT !.kind = "FileFormatMismatch", !.name = name]
       ELSE IF Len(m.groups) # Len(ExtDecl_matched_fields(e))
       THEN [NoMatch EXCEPT !.kind = "AssertionError"]
       ELSE [NoMatch EXCEPT !.kind = "ok",
                            !.value = dict_zip(ExtDecl_matched_fields(e), m.groups)]

ExtDecl_match(e, name) ==
    LET m == re_match(e.pattern, name)
    IN IF ~m.ok
       THEN [NoMatch EXCEPT !.kind = "FileFormatMismatch", !.name = name,
                            !.pattern = e.pattern]
       ELSE IF Len(m.groups) # Len(ExtDecl_matched_fields(e))
       THEN [NoMatch EXCEPT !.kind = "AssertionError"]
       ELSE [NoMatch EXCEPT !.kind = "ok",
                            !.value = dict_zip(ExtDecl_matched_fields(e), m.groups)]

(***************************************************************************)
(* The declarations explored.                                              *)
(***************************************************************************)
Leaf(name, pattern, required) ==
    [name |-> name, sep |-> <<>>, pattern |-> pattern, subfields |-> <<>>,
     required |-> required]

Group(name, sep, subfields, required) ==
    [name |-> name, sep |-> sep, pattern |-> <<>>, subfields |-> subfields,
     required |-> required]

SubDate == from_tuple("date", <<"\\d+">>)
SubTime == from_tuple("time", <<"\\d+">>)

\* a required and an optional field with a default, a required field of the
\* reserved name, an optional field without a default, and two groups
TopFields ==
    {Leaf("site", <<"[^_.]+">>, r) : r \in BOOLEAN}
    \cup {Leaf("rest", <<"[^_.]+">>, TRUE), Leaf("trial", <<"[^_.]+">>, FALSE)}
    \cup {Group("date", <<"-">>, subs, TRUE) : subs \in {<<SubDate, SubTime>>, <<SubDate, SubDate>>}}

Defaults == {"site" :> <<"1">>}

ExtData(maxlen) ==
    {[sep |-> <<"_">>, format |-> f, default |-> d] :
        f \in SeqsUpTo(TopFields, maxlen), d \in Defaults}

\* a field whose name is the path of a subfield of the group beside it
PathFields ==
    {Leaf("site", <<"[^_.]+">>, TRUE), Leaf("date__date", <<"[^_.]+">>, TRUE),
     Group("date", <<"-">>, <<SubDate>>, TRUE)}

PathExtData ==
    {[sep |-> <<"_">>, format |-> f, default |-> d] :
        f \in SeqsUpTo(PathFields, MaxFormat), d \in Defaults}

(***************************************************************************)
(* ProjectTemplateDecl (src/appm/model.py).  The declaration data is       *)
(* [layout, file]; file is the dict of the declaration as the list of its  *)
(* (extension, data) items in insertion order.                             *)
(***************************************************************************)
NoTemplate == [kind |-> "none", msg |-> "", ext |-> "", layout |-> <<>>, file |-> <<>>]

layout_set(layout) == {layout[i] : i \in 1..Len(layout)}

\* the items of file, each with the ExtDecl its data constructs
FileDecls(file) == [i \in 1..Len(file) |-> <<file[i][1], transform_format(file[i][2])>>]

\* the items whose extension lacks a layout field
NotSuperset(layout, decls) ==
    {i \in 1..Len(decls) : ~(layout_set(layout) \subseteq ExtDecl_fields(decls[i][2]))}

\* the validator with a loop that returns after the first extension
validate_format_and_layout_FirstOnly(data) ==
    LET decls == FileDecls(data.file)
        failed == {i \in 1..Len(decls) : decls[i][2].kind # "ok"}
        lacking == NotSuperset(data.layout, decls) \cap {1}
        first(S) == CHOOSE i \in S : \A j \in S : i <= j
    IN IF failed # {}
       THEN [NoTemplate EXCEPT !.kind = "ValidationError",
                               !.msg = decls[first(failed)][2].msg,
                               !.ext = decls[first(failed)][1]]
       ELSE IF lacking # {}
       THEN [NoTemplate EXCEPT !.kind = "ValidationError",
                               !.msg = "Format fields must be a superset of layout fields",
                               !.ext = decls[first(lacking)][1]]
       ELSE [kind |-> "ok", msg |-> "", ext |-> "", layout |-> data.layout, file |-> decls]

validate_format_and_layout(data) ==
    LET decls == FileDecls(data.file)
        failed == {i \in 1..Len(decls) : decls[i][2].kind # "ok"}
        lacking == NotSuperset(data.layout, decls)
        first(S) == CHOOSE i \in S : \A j \in S : i <= j
    IN IF failed # {}
       THEN [NoTemplate EXCEPT !.kind = "ValidationError",
                               !.msg = decls[first(failed)][2].msg,
                               !.ext = decls[first(failed)][1]]
       ELSE IF lacking # {}
       THEN [NoTemplate EXCEPT !.kind = "ValidationError",
                               !.msg = "Format fields must be a superset of layout fields",
                               !.ext = decls[first(lacking)][1]]
       ELSE [kind |-> "ok", msg |-> "", ext |-> "", layout |-> data.layout, file |-> decls]

LayoutNames == {"trial", "date", "date__time"}

ExtKeys == {"bin", "*"}

\* one extension of up to MaxFormat components, or two of up to
\* MaxTemplateFormat components each
FileData ==
    {<<<<k, d>>>> : k \in ExtKeys, d \in ExtData(MaxFormat)}
    \cup {<<<<k[1], d1>>, <<k[2], d2>>>> :
            k \in {kk \in ExtKeys \X ExtKeys : kk[1] # kk[2]},
            d1 \in ExtData(MaxTemplateFormat), d2 \in ExtData(MaxTemplateFormat)}

TemplateData ==
    {[layout |-> l, file |-> f] : l \in SeqsUpTo(LayoutNames, MaxLayout), f \in FileData}

(***************************************************************************)
(* FileParser (src/src/file.py).  An ExtensionDeclaration is               *)
(* [sep, order, fields]; the parser's data maps an extension to one.       *)
(***************************************************************************)
build_pattern(decl) ==
    <<"^">>
    \o join(decl.sep, [i \in 1..Len(decl.order) |-> Paren(decl.fields[decl.order[i]])])
    \o <<"(", ".*", ")", "$">>

\* name.split(".")[-1]
RECURSIVE LastPart(_)
LastPart(s) ==
    IF \E i \in 1..Len(s) : s[i] = "."
    THEN LastPart(Tail(s))
    ELSE s

\* str.lstrip(chars)
RECURSIVE lstrip(_, _)
lstrip(s, chars) ==
    IF s # <<>> /\ \E i \in 1..Len(chars) : chars[i] = s[1]
    THEN lstrip(Tail(s), chars)
    ELSE s

NoKey == <<"None">>

NoParsed == [kind |-> "none", msg |-> "", selected |-> NoKey, value |-> EmptyDict]

extract_filename(data, n) ==
    LET e == LastPart(n)
        m == re_match(build_pattern(data[e]), n)
    IN IF e \notin DOMAIN data
       THEN [NoParsed EXCEPT !.kind = "ValueError",
                             !.msg = "No mattching pattern for extension"]
       ELSE IF m.ok
       THEN [NoParsed EXCEPT !.kind = "ok", !.selected = e,
                !.value = [k \in DOMAIN dict_zip(data[e].order, m.groups) \cup {"rest"} |->
                             IF k = "rest"
                             THEN lstrip(m.groups[Len(m.groups)], data[e].sep)
                             ELSE dict_zip(data[e].order, m.groups)[k]]]
       ELSE [NoParsed EXCEPT !.kind = "ValueError", !.selected = e,
                             !.msg = "file does not match pattern"]

Wildcard == <<"*">>

ParserDecls ==
    {[sep |-> <<"_">>, order |-> o, fields |-> ("date" :> <<"\\d+">>) @@ ("site" :> <<"[^_.]+">>)] :
        o \in {<<"date">>, <<"date", "site">>}}

ParserData ==
    {[k \in K |-> d] : K \in (SUBSET {<<"b">>, <<"1">>, Wildcard}) \ {{}}, d \in ParserDecls}

\* what a list of subfields may hold: pairs (the second with an empty pattern)
\* and groups (the second without a separator)
Children ==
    {SubDate, from_tuple("time", <<>>),
     Group("zone", <<"-">>, <<SubTime>>, TRUE), Group("zone", <<>>, <<SubTime>>, TRUE)}

\* FieldDecl(name=..., sep=..., pattern=..., subfields=..., required=...)
FieldData ==
    [name : {"date"}, sep : {<<>>, <<"-">>}, pattern : {<<>>, <<"\\d+">>},
     subfields : SeqsUpTo(Children, MaxSubfields), required : BOOLEAN]

(***************************************************************************)
(* Layout and file placement (spec.md 4.3, 4.5; layout of default.py).     *)
(***************************************************************************)
NoLayout == [structure |-> <<>>, mapping |-> EmptyDict]

\* a translation table in the manner of procLevel: raw -> T0-raw
Table == (<<"b">> :> <<"1", "-", "b">>) @@ (<<"1">> :> <<"b">>)

Mappings == {EmptyDict, "site" :> Table, "trial" :> Table}

LayoutStructures == {<<"site">>, <<"trial">>, <<"site", "trial">>, <<"trial", "site">>,
               <<"date__time", "site">>}

\* match of 4.5 after the match of the extension: the default of a field
\* without a matched value
with_defaults(value, default) ==
    [k \in DOMAIN value \cup DOMAIN default |->
        IF k \in DOMAIN value THEN value[k] ELSE default[k]]

\* resolve that translates a value until no table entry applies
resolve_Again(layout, value) ==
    [i \in 1..Len(layout.structure) |->
        LET f == layout.structure[i]
            once == IF f \in DOMAIN layout.mapping /\ value[f] \in DOMAIN layout.mapping[f]
                    THEN layout.mapping[f][value[f]] ELSE value[f]
        IN IF f \in DOMAIN layout.mapping /\ once \in DOMAIN layout.mapping[f]
           THEN layout.mapping[f][once] ELSE once]

\* LayoutSpec.resolve(matched)
resolve(layout, value) ==
    [i \in 1..Len(layout.structure) |->
        LET f == layout.structure[i]
        IN IF f \in DOMAIN layout.mapping /\ value[f] \in DOMAIN layout.mapping[f]
           THEN layout.mapping[f][value[f]]
           ELSE value[f]]

NoPlacement == [kind |-> "none", value |-> <<>>]

\* placement(file_name), from the match m of the selected extension
placement(layout, default, m) ==
    IF m.kind # "ok" THEN [kind |-> m.kind, value |-> <<>>]
    ELSE [kind |-> "ok", value |-> resolve(layout, with_defaults(m.value, default))]

\* a template of one extension: the layout is within the fields of the
\* extension and the fields it has a default for
PlacementData ==
    {d \in [layout : [structure : LayoutStructures, mapping : Mappings],
            ext : ExtData(MaxTemplateFormat)] :
        /\ transform_format(d.ext).kind = "ok"
        /\ \A i \in 1..Len(d.layout.structure) :
               d.layout.structure[i] \in
                   (ExtDecl_fields(transform_format(d.ext)) \ {"*"}) \cup DOMAIN d.ext.default}

(***************************************************************************)
(* NamingConvDecl and ProjectMetadata.project_name (src/appm/model.py).    *)
(***************************************************************************)
STRUCTURES == {"year", "summary", "internal", "researcherName", "organisationName"}

NoNaming == [kind |-> "none", msg |-> "", field |-> "", sep |-> <<>>, structure |-> <<>>]

\* the positions of structure at which the loop of the validator raises
Violations(structure) ==
    {i \in 1..Len(structure) :
        \/ \E j \in 1..(i - 1) : structure[j] = structure[i]
        \/ structure[i] \notin STRUCTURES}

\* a validator that looks for a foreign field before it looks for a repetition
validate_structure_values_ForeignFirst(data) ==
    IF Len(data.structure) = 0
    THEN [NoNaming EXCEPT !.kind = "ValidationError",
                          !.msg = "Invalid naming structure - empty structure"]
    ELSE IF \E i \in 1..Len(data.structure) : data.structure[i] \notin STRUCTURES
    THEN [NoNaming EXCEPT !.kind = "ValidationError",
             !.msg = "Invalid naming structure - invalid field. Structure must be a non empty permutation"]
    ELSE IF Violations(data.structure) # {}
    THEN [NoNaming EXCEPT !.kind = "ValidationError",
                          !.msg = "Invalid naming structure - repetition"]
    ELSE [kind |-> "ok", msg |-> "", field |-> "", sep |-> data.sep,
          structure |-> data.structure]

validate_structure_values(data) ==
    LET bad == Violations(data.structure)
        first == CHOOSE i \in bad : \A j \in bad : i <= j
    IN IF Len(data.structure) = 0
       THEN [NoNaming EXCEPT !.kind = "ValidationError",
                             !.msg = "Invalid naming structure - empty structure"]
       ELSE IF bad = {}
       THEN [kind |-> "ok", msg |-> "", field |-> "", sep |-> data.sep,
             structure |-> data.structure]
       ELSE IF \E j \in 1..(first - 1) : data.structure[j] = data.structure[first]
       THEN [NoNaming EXCEPT !.kind = "ValidationError",
                             !.msg = "Invalid naming structure - repetition",
                             !.field = data.structure[first]]
       ELSE [NoNaming EXCEPT !.kind = "ValidationError",
                !.msg = "Invalid naming structure - invalid field. Structure must be a non empty permutation",
                !.field = data.structure[first]]

\* None, where a str may also be given
None == <<"None">>

Digit(d) == <<"0", "1", "2", "3", "4", "5", "6", "7", "8", "9">>[d + 1]

RECURSIVE str(_)
\* str(n) of an int
str(n) ==
    IF n < 0 THEN <<"-">> \o str(0 - n)
    ELSE IF n < 10 THEN <<Digit(n)>>
    ELSE str(n \div 10) \o <<Digit(n % 10)>>

\* appm.utils.slugify: lower case, with a hyphen for a space or an underscore
slugify(text) ==
    [i \in 1..Len(text) |->
        CASE text[i] = "A" -> "a"
          [] text[i] = "B" -> "b"
          [] text[i] = " " -> "-"
          [] text[i] = "_" -> "-"
          [] OTHER -> text[i]]

Internal == <<"i", "n", "t", "e", "r", "n", "a", "l">>
External == <<"e", "x", "t", "e", "r", "n", "a", "l">>

\* one pass of the loop of project_name without the test for None
Appended_KeepNone(field, m) ==
    CASE field = "year" -> <<str(m.year)>>
      [] field = "internal" -> <<IF m.internal THEN Internal ELSE External>>
      [] OTHER -> <<IF m[field] = None THEN <<>> ELSE slugify(m[field])>>

\* what one pass of the loop of project_name appends to the list name
Appended(field, m) ==
    CASE field = "year" -> <<str(m.year)>>
      [] field = "internal" -> <<IF m.internal THEN Internal ELSE External>>
      [] OTHER -> IF m[field] = None THEN <<>> ELSE <<slugify(m[field])>>

RECURSIVE NameParts(_, _)
\* the list name of project_name after the loop over fields
NameParts(fields, m) ==
    IF fields = <<>> THEN <<>>
    ELSE Appended(fields[1], m) \o NameParts(Tail(fields), m)

\* project_name that concatenates the parts
project_name_Concat(naming_convention, m) ==
    extend(NameParts(naming_convention.structure, m))

project_name(naming_convention, m) ==
    join(naming_convention.sep, NameParts(naming_convention.structure, m))

NamingData ==
    {[sep |-> <<"_">>, structure |-> st] : st \in SeqsUpTo(STRUCTURES \cup {"month"}, MaxStructure)}

Texts == {<<>>, <<"b">>, <<"A", " ", "B">>}

Metadata ==
    [year : {7, 24}, summary : Texts, internal : BOOLEAN,
     researcherName : Texts \cup {None}, organisationName : Texts \cup {None}]

(***************************************************************************)
(* State.  One run of the library: a declaration is constructed (an        *)
(* ExtDecl, a ProjectTemplateDecl or a FileParser), and a file name is     *)
(* then given to the constructed object.                                   *)
(*   extData, ext       the data given to ExtDecl, what construction gave  *)
(*   name, matched      the file name given to match, what match gave      *)
(*   tmplData, tmpl     the data given to ProjectTemplateDecl, the result  *)
(*   parserData, parsed the FileParser's data, what extract_filename gave  *)
(***************************************************************************)
VARIABLES pc, extData, ext, name, matched, tmplData, tmpl, parserData, parsed,
          namingData, naming, meta, projectName, fieldData, fieldDecl,
          layout, placed

fileVars == <<extData, ext, name, matched, tmplData, tmpl, parserData, parsed>>

namingVars == <<namingData, naming, meta, projectName>>

fieldVars == <<fieldData, fieldDecl>>

placeVars == <<layout, placed>>

vars == <<pc, fileVars, namingVars, fieldVars, placeVars>>

NoFieldData == [name |-> "", sep |-> <<>>, pattern |-> <<>>, subfields |-> <<>>, required |-> TRUE]

NoNamingData == [sep |-> <<>>, structure |-> <<>>]

NoMeta ==
    [year |-> 0, summary |-> <<>>, internal |-> TRUE,
     researcherName |-> None, organisationName |-> None]

NoData == [sep |-> <<>>, format |-> <<>>, default |-> EmptyDict]

NoTemplateData == [layout |-> <<>>, file |-> <<>>]

Init ==
    /\ pc = "start"
    /\ extData = NoData
    /\ ext = NoExt
    /\ name = <<>>
    /\ matched = NoMatch
    /\ tmplData = NoTemplateData
    /\ tmpl = NoTemplate
    /\ parserData = EmptyDict
    /\ parsed = NoParsed
    /\ namingData = NoNamingData
    /\ naming = NoNaming
    /\ meta = NoMeta
    /\ projectName = <<>>
    /\ fieldData = NoFieldData
    /\ fieldDecl = "none"
    /\ layout = NoLayout
    /\ placed = NoPlacement

\* ExtDecl(**data)
ConstructExt ==
    /\ pc = "start"
    /\ \E data \in ExtData(MaxFormat) :
        /\ extData' = data
        /\ ext' = transform_format(data)
    /\ pc' = "ExtDecl"
    /\ UNCHANGED <<name, matched, tmplData, tmpl, parserData, parsed>>
    /\ UNCHANGED <<namingVars, fieldVars, placeVars>>

\* ext.match(n) on the extension constructed
Match ==
    /\ pc = "ExtDecl"
    /\ ext.kind = "ok"
    /\ \E n \in Names :
        /\ name' = n
        /\ matched' = ExtDecl_match(ext, n)
    /\ pc' = "done"
    /\ UNCHANGED <<extData, ext, tmplData, tmpl, parserData, parsed>>
    /\ UNCHANGED <<namingVars, fieldVars, placeVars>>

\* ProjectTemplateDecl(**data)
ConstructTemplate ==
    /\ pc = "start"
    /\ \E data \in TemplateData :
        /\ tmplData' = data
        /\ tmpl' = validate_format_and_layout(data)
    /\ pc' = "done"
    /\ UNCHANGED <<extData, ext, name, matched, parserData, parsed>>
    /\ UNCHANGED <<namingVars, fieldVars, placeVars>>

\* FileParser(data)
ConstructParser ==
    /\ pc = "start"
    /\ \E data \in ParserData : parserData' = data
    /\ pc' = "FileParser"
    /\ UNCHANGED <<extData, ext, name, matched, tmplData, tmpl, parsed>>
    /\ UNCHANGED <<namingVars, fieldVars, placeVars>>

\* parser.extract_filename(n)
ExtractFilename ==
    /\ pc = "FileParser"
    /\ \E n \in Names :
        /\ name' = n
        /\ parsed' = extract_filename(parserData, n)
    /\ pc' = "done"
    /\ UNCHANGED <<extData, ext, matched, tmplData, tmpl, parserData>>
    /\ UNCHANGED <<namingVars, fieldVars, placeVars>>

\* NamingConvDecl(**data)
ConstructNaming ==
    /\ pc = "start"
    /\ \E data \in NamingData :
        /\ namingData' = data
        /\ naming' = validate_structure_values(data)
    /\ pc' = "NamingConvDecl"
    /\ UNCHANGED <<meta, projectName>>
    /\ UNCHANGED <<fileVars, fieldVars, placeVars>>

\* ProjectMetadata(meta=m, naming_convention=naming).project_name
ProjectName ==
    /\ pc = "NamingConvDecl"
    /\ naming.kind = "ok"
    /\ \E m \in Metadata :
        /\ meta' = m
        /\ projectName' = project_name(naming, m)
    /\ pc' = "done"
    /\ UNCHANGED <<namingData, naming>>
    /\ UNCHANGED <<fileVars, fieldVars, placeVars>>

Next ==
    \/ ConstructExt
    \/ Match
    \/ ConstructTemplate
    \/ ConstructParser
    \/ ExtractFilename

Spec == Init /\ [][Next]_vars

\* FieldDecl(**data): "ok", or the message of the error raised
ConstructField ==
    /\ pc = "start"
    /\ \E data \in FieldData :
        /\ fieldData' = data
        /\ fieldDecl' = extract_field_decl(<<data>>)
    /\ pc' = "done"
    /\ UNCHANGED <<fileVars, namingVars, placeVars>>

SpecField == Init /\ [][ConstructField]_vars

\* a template of one extension and a layout is loaded
ConstructPlacement ==
    /\ pc = "start"
    /\ \E data \in PlacementData :
        /\ layout' = data.layout
        /\ extData' = data.ext
        /\ ext' = transform_format(data.ext)
    /\ pc' = "ProjectManager"
    /\ UNCHANGED <<name, matched, tmplData, tmpl, parserData, parsed, placed>>
    /\ UNCHANGED <<namingVars, fieldVars>>

\* placement(n)
Placement ==
    /\ pc = "ProjectManager"
    /\ \E n \in Names :
        /\ name' = n
        /\ matched' = ExtDecl_match(ext, n)
        /\ placed' = placement(layout, extData.default, ExtDecl_match(ext, n))
    /\ pc' = "done"
    /\ UNCHANGED <<extData, ext, tmplData, tmpl, parserData, parsed, layout>>
    /\ UNCHANGED <<namingVars, fieldVars>>

NextPlacement ==
    \/ ConstructPlacement
    \/ Placement

SpecPlacement == Init /\ [][NextPlacement]_vars

\* ExtDecl(**data), among the fields one named as the path of a subfield
ConstructPathExt ==
    /\ pc = "start"
    /\ \E data \in PathExtData :
        /\ extData' = data
        /\ ext' = transform_format(data)
    /\ pc' = "ExtDecl"
    /\ UNCHANGED <<name, matched, tmplData, tmpl, parserData, parsed>>
    /\ UNCHANGED <<namingVars, fieldVars, placeVars>>

NextRoundTrip ==
    \/ ConstructPathExt
    \/ Match

SpecRoundTrip == Init /\ [][NextRoundTrip]_vars

NextNaming ==
    \/ ConstructNaming
    \/ ProjectName

SpecNaming == Init /\ [][NextNaming]_vars

(***************************************************************************)
(* What the claims speak of.                                               *)
(***************************************************************************)
\* the flattened field paths of a constructed extension: every field's own
\* name, then its subfields' paths in declared order, recursively
FlattenedPaths(e) ==
    extend([i \in 1..Len(e.format) |-> FieldDecl_matched_fields(e.format[i])])

\* the capture groups of the composed pattern on the file name matched
Groups == re_match(ext.pattern, name).groups

Accepted == pc = "done" /\ ext.kind = "ok" /\ re_match(ext.pattern, name).ok

Rejected == pc = "done" /\ ext.kind = "ok" /\ ~re_match(ext.pattern, name).ok

RECURSIVE DeclaredNames(_)
\* the names of the fields declared in a list of fields, at any depth
DeclaredNames(fields) ==
    IF fields = <<>> THEN {}
    ELSE {fields[1].name} \cup DeclaredNames(fields[1].subfields)
         \cup DeclaredNames(Tail(fields))

\* e has a component, pairwise distinct flattened names, no field of the
\* reserved name and a required first component
WellDeclared(e) ==
    /\ e.format # <<>>
    /\ \A i, j \in 1..Len(FlattenedPaths(e)) :
           i # j => FlattenedPaths(e)[i] # FlattenedPaths(e)[j]
    /\ "rest" \notin DeclaredNames(e.format)
    /\ e.format[1].required

\* the anchored pattern of the components of e other than the i-th
PatternWithout(e, i) ==
    <<"^">>
    \o join(e.sep, [j \in 1..(Len(e.format) - 1) |->
                      Paren(FieldDecl_processed_pattern(
                              e.format[IF j < i THEN j ELSE j + 1]))])
    \o <<"(", ".*", ")", "$">>

\* the file name matched has the components of ext except the i-th one
Omits(i) == pc = "done" /\ ~re_match(ext.pattern, name).ok
            /\ re_match(PatternWithout(ext, i), name).ok

\* the non-leading optional components of ext that the data gives a default
OptionalWithDefault ==
    {i \in 2..Len(ext.format) :
        ~ext.format[i].required /\ ext.format[i].name \in DOMAIN extData.default}

(***************************************************************************)
(* C1.  A file name that match accepts gives a mapping of (number of       *)
(* flattened field paths + 1) entries, the i-th capture group stored under *)
(* the i-th flattened path and the trailing capture last, and the check of *)
(* the number of groups does not fail.                                     *)
(***************************************************************************)
C1_GroupsUnderPaths ==
    Accepted =>
        /\ matched.kind = "ok"
        /\ Len(Groups) = Len(FlattenedPaths(ext)) + 1
        /\ Cardinality(DOMAIN matched.value) = Len(FlattenedPaths(ext)) + 1
        /\ \A i \in 1..Len(FlattenedPaths(ext)) :
               /\ FlattenedPaths(ext)[i] \in DOMAIN matched.value
               /\ matched.value[FlattenedPaths(ext)[i]] = Groups[i]

(***************************************************************************)
(* C2.  For an optional field with a default d, a file name that omits the *)
(* field is matched and gives d for it, and a file name that has the field *)
(* gives the value it has.                                                 *)
(***************************************************************************)
C2_OptionalDefault ==
    (pc = "done" /\ ext.kind = "ok" /\ WellDeclared(ext)) =>
        \A i \in OptionalWithDefault :
            /\ Omits(i) =>
                   /\ matched.kind = "ok"
                   /\ ext.format[i].name \in DOMAIN matched.value
                   /\ matched.value[ext.format[i].name] = extData.default[ext.format[i].name]
            /\ Accepted =>
                   /\ matched.kind = "ok"
                   /\ ext.format[i].name \in DOMAIN matched.value
                   /\ matched.value[ext.format[i].name] # NoGroup

(***************************************************************************)
(* C3.  Extension selection gives the declaration of the file's exact      *)
(* suffix if there is one, otherwise the declaration of the wildcard if    *)
(* there is one, otherwise fails with UnsupportedFileExtension.            *)
(***************************************************************************)
C3_SelectionThreeOutcomes ==
    (pc = "done" /\ parsed.kind # "none") =>
        IF LastPart(name) \in DOMAIN parserData
        THEN parsed.selected = LastPart(name)
        ELSE IF Wildcard \in DOMAIN parserData
        THEN parsed.selected = Wildcard
        ELSE parsed.selected = NoKey /\ parsed.kind = "UnsupportedFileExtension"

(***************************************************************************)
(* C4.  When the anchored pattern of the extension does not match the file *)
(* name, match fails with FileFormatMismatch, which carries the file name  *)
(* and the pattern, and no mapping is returned.                            *)
(***************************************************************************)
C4_MismatchRaises ==
    Rejected =>
        /\ matched.kind = "FileFormatMismatch"
        /\ matched.name = name
        /\ matched.pattern = ext.pattern
        /\ DOMAIN matched.value = {}

\* a file name with a separator is rejected by an extension of two components
C4_Witness ==
    /\ Rejected
    /\ Len(ext.format) = 2
    /\ \E i \in 1..Len(name) : name[i] = "_"
    /\ matched.kind = "FileFormatMismatch"

(***************************************************************************)
(* C5.  A template is constructed only if every layout field is in the     *)
(* field set of every extension; if an extension lacks a layout field the  *)
(* construction fails, with an error that names an extension lacking one,  *)
(* and no template is returned.                                            *)
(***************************************************************************)
\* the i-th extension of the template data is constructed and lacks a
\* layout field
Lacks(i) ==
    /\ transform_format(tmplData.file[i][2]).kind = "ok"
    /\ \E j \in 1..Len(tmplData.layout) :
           tmplData.layout[j] \notin ExtDecl_fields(transform_format(tmplData.file[i][2]))

AllConstructed ==
    \A i \in 1..Len(tmplData.file) : transform_format(tmplData.file[i][2]).kind = "ok"

C5_LayoutWithinFields ==
    (pc = "done" /\ tmpl.kind # "none") =>
        /\ tmpl.kind = "ok" =>
               /\ AllConstructed
               /\ \A i \in 1..Len(tmplData.file) : ~Lacks(i)
               /\ Len(tmpl.file) = Len(tmplData.file)
        /\ (\E i \in 1..Len(tmplData.file) : Lacks(i)) =>
               /\ tmpl.kind = "ValidationError"
               /\ tmpl.file = <<>>
               /\ AllConstructed =>
                      \E i \in 1..Len(tmplData.file) :
                          Lacks(i) /\ tmpl.ext = tmplData.file[i][1]

\* of two extensions only the second lacks a layout field, and it is named
C5_Witness ==
    /\ pc = "done"
    /\ Len(tmplData.file) = 2
    /\ Len(tmplData.layout) = 2
    /\ tmplData.layout[1] # tmplData.layout[2]
    /\ ~Lacks(1)
    /\ Lacks(2)
    /\ tmpl.kind = "ValidationError"
    /\ tmpl.ext = tmplData.file[2][1]

(***************************************************************************)
(* C6.  A constructed extension has pairwise distinct flattened field      *)
(* names: construction fails when two fields of the declaration tree give  *)
(* the same flattened name.                                                *)
(***************************************************************************)
C6_FlattenedNamesDistinct ==
    ext.kind = "ok" =>
        \A i, j \in 1..Len(FlattenedPaths(ext)) :
            i # j => FlattenedPaths(ext)[i] # FlattenedPaths(ext)[j]

(***************************************************************************)
(* C7.  No constructed extension declares, at any depth, a field of the    *)
(* reserved name rest.                                                     *)
(***************************************************************************)
C7_NoFieldNamedRest ==
    ext.kind = "ok" => "rest" \notin DeclaredNames(ext.format)

(***************************************************************************)
(* C8.  The field set of an extension is its flattened field names and the *)
(* key rest, and a match gives the trailing capture under rest.            *)
(***************************************************************************)
C8_FieldsAndRest ==
    (ext.kind = "ok" /\ WellDeclared(ext)) =>
        /\ ExtDecl_fields(ext) =
               {FlattenedPaths(ext)[i] : i \in 1..Len(FlattenedPaths(ext))} \cup {"rest"}
        /\ Accepted =>
               /\ "rest" \in DOMAIN matched.value
               /\ matched.value["rest"] = Groups[Len(Groups)]

(***************************************************************************)
(* C9.  The first top-level component of a constructed extension is        *)
(* required.                                                               *)
(***************************************************************************)
C9_FirstComponentRequired ==
    (ext.kind = "ok" /\ ext.format # <<>>) => ext.format[1].required

(***************************************************************************)
(* C10.  In a constructed template every optional field of an extension    *)
(* that the layout names has a default in that extension.                  *)
(***************************************************************************)
C10_OptionalLayoutFieldHasDefault ==
    (pc = "done" /\ tmpl.kind = "ok") =>
        \A i \in {k \in 1..Len(tmpl.file) : WellDeclared(tmpl.file[k][2])} :
            \A j \in 2..Len(tmpl.file[i][2].format) :
                LET f == tmpl.file[i][2].format[j]
                IN (~f.required /\ f.name \in layout_set(tmpl.layout))
                       => f.name \in DOMAIN tmplData.file[i][2].default

(***************************************************************************)
(* C11.  A constructed extension has at least one top-level component, and *)
(* every group field in it has at least one subfield: construction fails   *)
(* for an empty component list.                                            *)
(***************************************************************************)
RECURSIVE GroupsNonEmpty(_)
\* no field of the list, at any depth, has neither a pattern nor a subfield
GroupsNonEmpty(fields) ==
    \A i \in 1..Len(fields) :
        /\ fields[i].pattern # <<>> \/ fields[i].subfields # <<>>
        /\ GroupsNonEmpty(fields[i].subfields)

C11_ComponentsNonEmpty ==
    ext.kind = "ok" => (ext.format # <<>> /\ GroupsNonEmpty(ext.format))

(***************************************************************************)
(* Naming convention and project name.                                     *)
(***************************************************************************)
EmptyStructureMsg == "Invalid naming structure - empty structure"

RepetitionMsg == "Invalid naming structure - repetition"

PermutationMsg ==
    "Invalid naming structure - invalid field. Structure must be a non empty permutation"

NamingConstructed == pc \in {"NamingConvDecl", "done"} /\ naming.kind # "none"

Repeats(st, i) == \E j \in 1..(i - 1) : st[j] = st[i]

Foreign(st, i) == st[i] \notin STRUCTURES

\* position i holds the first element of st that is repeated or foreign
FirstViolation(st, i) ==
    /\ i \in 1..Len(st)
    /\ Repeats(st, i) \/ Foreign(st, i)
    /\ \A j \in 1..(i - 1) : ~(Repeats(st, j) \/ Foreign(st, j))

WellFormedStructure(st) ==
    /\ st # <<>>
    /\ \A i \in 1..Len(st) : ~Repeats(st, i) /\ ~Foreign(st, i)

C12_SuccessAndFirstTwoErrors ==
    NamingConstructed =>
        LET st == namingData.structure
        IN /\ naming.kind = "ok" <=> WellFormedStructure(st)
           /\ st = <<>> => naming.msg = EmptyStructureMsg
           /\ (\E i \in 1..Len(st) : FirstViolation(st, i) /\ ~Foreign(st, i))
                  => naming.msg = RepetitionMsg

(* C12, as stated.  Construction succeeds exactly for a non-empty structure *)
(* without repeats drawn from the vocabulary; an empty structure fails     *)
(* with 'empty structure', a structure whose first violation is a repeated *)
(* vocabulary field with 'repetition', and a structure containing a        *)
(* foreign field with 'permutation'.                                       *)
C12_ForeignAlwaysPermutation ==
    /\ C12_SuccessAndFirstTwoErrors
    /\ NamingConstructed =>
           ((\E i \in 1..Len(namingData.structure) : Foreign(namingData.structure, i))
                => naming.msg = PermutationMsg)

(* C12, amended.  As above, but the 'permutation' error is raised for a    *)
(* structure whose first violation is a foreign field: the first element   *)
(* in violation decides the error.                                         *)
C12_FirstViolationDecides ==
    /\ C12_SuccessAndFirstTwoErrors
    /\ NamingConstructed =>
           ((\E i \in 1..Len(namingData.structure) :
                 FirstViolation(namingData.structure, i) /\ Foreign(namingData.structure, i))
                => naming.msg = PermutationMsg)

\* a repeated vocabulary field ahead of a foreign field: 'repetition' is raised
C12_Witness ==
    /\ NamingConstructed
    /\ \E i, k \in 1..Len(namingData.structure) :
           /\ FirstViolation(namingData.structure, i)
           /\ ~Foreign(namingData.structure, i)
           /\ i < k
           /\ Foreign(namingData.structure, k)
    /\ naming.msg = RepetitionMsg

Rendered == pc = "done" /\ naming.kind = "ok"

StartsWith(s, prefix) ==
    Len(prefix) <= Len(s) /\ SubSeq(s, 1, Len(prefix)) = prefix

EndsWith(s, suffix) ==
    Len(suffix) <= Len(s) /\ SubSeq(s, Len(s) - Len(suffix) + 1, Len(s)) = suffix

Contains(s, part) ==
    \E i \in 1..(Len(s) - Len(part) + 1) : SubSeq(s, i, i + Len(part) - 1) = part

NoStraySeparator ==
    /\ ~StartsWith(projectName, naming.sep)
    /\ ~EndsWith(projectName, naming.sep)
    /\ ~Contains(projectName, naming.sep \o naming.sep)

\* the text the name shows for a field of the structure whose value is not None
Shown(field) ==
    CASE field = "year" -> str(meta.year)
      [] field = "internal" -> IF meta.internal THEN Internal ELSE External
      [] OTHER -> slugify(meta[field])

IsNone(field) == field \notin {"year", "internal"} /\ meta[field] = None

\* the fields of the structure with a value, in the order of the structure
Present == SelectSeq(naming.structure, LAMBDA f : ~IsNone(f))

(* C13, as stated.  For every valid naming convention and every metadata   *)
(* record the project name neither begins nor ends with the separator nor  *)
(* holds two separators in a row, whichever optional fields are None.      *)
C13_NoStraySeparator == Rendered => NoStraySeparator

(* C13, amended.  The same, for the records whose values that are not None *)
(* are shown as non-empty text without a character of the separator.       *)
C13_NoStraySeparatorForNonEmptyValues ==
    (/\ Rendered
     /\ naming.sep # <<>>
     /\ \A i \in 1..Len(Present) :
            /\ Shown(Present[i]) # <<>>
            /\ \A k \in 1..Len(Shown(Present[i])) :
                   \A l \in 1..Len(naming.sep) : Shown(Present[i])[k] # naming.sep[l])
        => NoStraySeparator

\* an optional field that is None stands between two fields that are shown
C13_Witness ==
    /\ Rendered
    /\ Len(naming.structure) = 3
    /\ IsNone(naming.structure[2])
    /\ \A i \in 1..Len(Present) : Shown(Present[i]) # <<>>
    /\ Len(Present) = 2
    /\ projectName = Shown(Present[1]) \o naming.sep \o Shown(Present[2])

(* C14.  The project name is the texts of the fields whose value is not    *)
(* None, in the order of the structure, joined by the separator: a string  *)
(* slugified, the year in decimal, internal as "internal" or "external".   *)
C14_NameIsJoinOfShownValues ==
    Rendered =>
        /\ projectName = join(naming.sep, [i \in 1..Len(Present) |-> Shown(Present[i])])
        /\ \A i \in 1..Len(Present) :
               /\ Present[i] = "internal" =>
                      Shown(Present[i]) = IF meta.internal THEN Internal ELSE External
               /\ Present[i] = "year" /\ meta.year = 24 => Shown(Present[i]) = <<"2", "4">>

\* a name in three parts: the year, a slugified name and the internal flag
C14_Witness ==
    /\ Rendered
    /\ naming.structure = <<"year", "researcherName", "internal">>
    /\ meta.year = 24
    /\ meta.researcherName = <<"A", " ", "B">>
    /\ ~meta.internal
    /\ projectName = <<"2", "4", "_", "a", "-", "b", "_">> \o External

(***************************************************************************)
(* Field construction.                                                     *)
(***************************************************************************)
FieldConstructed == pc = "done" /\ fieldDecl # "none"

\* exactly one of pattern and subfields is set and subfields come with a separator
OneOfPatternSubfields(f) ==
    /\ (f.pattern # <<>>) # (f.subfields # <<>>)
    /\ f.subfields # <<>> => f.sep # <<>>

RECURSIVE Constructible(_)
Constructible(f) ==
    /\ OneOfPatternSubfields(f)
    /\ \A i \in 1..Len(f.subfields) : Constructible(f.subfields[i])

FailingCases ==
    /\ fieldData.pattern = <<>> /\ fieldData.subfields = <<>> => fieldDecl # "ok"
    /\ fieldData.pattern # <<>> /\ fieldData.subfields # <<>> => fieldDecl # "ok"
    /\ fieldData.subfields # <<>> /\ fieldData.sep = <<>> => fieldDecl # "ok"

(* C15, as stated.  The construction of a field succeeds exactly when one  *)
(* of pattern and subfields is set and subfields come with a separator; a  *)
(* field with neither, with both, or with subfields and no separator fails.*)
C15_SucceedsIffOneOfPatternSubfields ==
    FieldConstructed =>
        /\ fieldDecl = "ok" <=> OneOfPatternSubfields(fieldData)
        /\ FailingCases

(* C15, amended.  The construction of a field succeeds exactly when one of *)
(* pattern and subfields is set, subfields come with a separator, and      *)
(* every subfield can itself be constructed; the three failing cases fail. *)
C15_SucceedsIffSubfieldsConstructible ==
    FieldConstructed =>
        /\ fieldDecl = "ok" <=> Constructible(fieldData)
        /\ FailingCases

\* a group of two subfields, one of them a group, is constructed
C15_Witness ==
    /\ FieldConstructed
    /\ fieldDecl = "ok"
    /\ Len(fieldData.subfields) = 2
    /\ \E i \in 1..2 : fieldData.subfields[i].subfields # <<>>

(***************************************************************************)
(* Placement.                                                              *)
(***************************************************************************)
Placed == pc = "done" /\ placed.kind = "ok"

\* the matched value of a layout field after default substitution
ValueOf(f) == IF f \in DOMAIN matched.value THEN matched.value[f] ELSE extData.default[f]

(* C16.  placement gives one segment for each layout field, in the order   *)
(* of the layout: the matched value of the field (its default if it has no *)
(* matched value), replaced by its display value if the mapping has a      *)
(* table for the field with the value as a key, and unchanged otherwise;   *)
(* b gives 1-b, and 1-b, already translated, stays 1-b.                    *)
C16_SegmentsAreMappedValues ==
    Placed =>
        /\ Len(placed.value) = Len(layout.structure)
        /\ \A i \in 1..Len(layout.structure) :
               LET f == layout.structure[i]
                   v == ValueOf(f)
               IN /\ (f \in DOMAIN layout.mapping /\ v \in DOMAIN layout.mapping[f])
                         => placed.value[i] = layout.mapping[f][v]
                  /\ ~(f \in DOMAIN layout.mapping /\ v \in DOMAIN layout.mapping[f])
                         => placed.value[i] = v
                  /\ (f \in DOMAIN layout.mapping /\ v = <<"b">>)
                         => placed.value[i] = <<"1", "-", "b">>
                  /\ v = <<"1", "-", "b">> => placed.value[i] = <<"1", "-", "b">>

\* the default of site is translated, the matched trial is passed through
C16_Witness ==
    /\ Placed
    /\ layout.structure = <<"site", "trial">>
    /\ "site" \in DOMAIN layout.mapping
    /\ "site" \notin DOMAIN matched.value
    /\ matched.value["trial"] = <<"1", "-", "b">>
    /\ placed.value = <<<<"b">>, <<"1", "-", "b">>>>

(***************************************************************************)
(* Round trip of match.                                                    *)
(***************************************************************************)
\* the captures of the top-level components in declared order, joined by the
\* separator of the extension, and then the trailing capture
Rejoined ==
    join(ext.sep, [i \in 1..Len(ext.format) |-> matched.value[ext.format[i].name]])
    \o matched.value["*"]

(* C17.  For a constructed extension and a file name its match accepts,    *)
(* the captured values of the top-level components, joined in declared     *)
(* order by the separator, followed by the trailing capture, are the file  *)
(* name.                                                                   *)
C17_MatchReproducesName ==
    (Accepted /\ matched.kind = "ok") => Rejoined = name

====
